---------------------------- MODULE Spec2Model ----------------------------
(***************************************************************************)
(* Land-cover analysis pipeline of property-analysis:                      *)
(*   GeospatialService (transform, cache key, cache, provider dispatch,    *)
(*   mock generator, area estimate, setProvider, clearCache) and the       *)
(*   Analysis component / App state that drive it.                         *)
(*                                                                         *)
(* Representation of JavaScript values                                     *)
(*   number      an integer count of 1/UnitsPerDegree degree (fixed point),*)
(*               or NaN where the code computes with undefined             *)
(*   number[][]  a sequence of pairs <<lat, lng>>                          *)
(*   string      a TLA+ string; Array.prototype.join is computed with \o   *)
(*   any         a record carrying what the code's shape tests look at     *)
(*               (Array.isArray, .coordinates, the kind of the elements)   *)
(*   Map         a function from the stored keys to the stored values      *)
(*   Promise     the position (pc) of the async call that owns it          *)
(***************************************************************************)
EXTENDS Integers, Sequences, FiniteSets, TLC

VARIABLES
    config,               \* GeospatialService.config
    cache,                \* GeospatialService.cache
    calls,                \* one record per analyzeLandCover call
    polygonCoordinates,   \* App state
    analysisResults,      \* App state
    isAnalyzing,          \* Analysis state
    error,                \* Analysis state
    selectedProvider,     \* Analysis state
    uiCall,               \* the call performAnalysis is awaiting (0: none)
    drawing,              \* Map: the drawing state of the effect's closure
    probe                 \* input and output of a pure function under test

vars == <<config, cache, calls, polygonCoordinates, analysisResults,
          isAnalyzing, error, selectedProvider, uiCall, drawing, probe>>

serviceVars == <<config, cache, calls>>
uiVars == <<polygonCoordinates, analysisResults, isAnalyzing, error,
            selectedProvider, uiCall, drawing>>

---------------------------------------------------------------------------
(* Bounds of the model *)

MaxCalls == 2          \* analyzeLandCover calls made in one behaviour
RandDen == 1000        \* Math.random() is n / RandDen with 0 <= n < RandDen
RandSteps == 4         \* grid of Math.random() samples, plus the largest one
MaxVertices == 3       \* vertices of a polygon handed to a pure helper
MaxPoints == 4         \* points placed on the map in one drawing

\* The most calls of setProvider in a run whose arguments are recorded
MaxSwitches == 2

(* Program constants *)

UnitsPerDegree == 1000
AreaThresholdDen == 1000   \* isLargeArea = area > 0.001 = 1 / 1000
TotalArea == 100
DelaySentinelHub == 2000
DelayGoogleEarthEngine == 1800
DelayUsgsLandcover == 1500

MOCK == "mock"
SENTINEL_HUB == "sentinelHub"
GOOGLE_EARTH_ENGINE == "googleEarthEngine"
USGS_LANDCOVER == "usgsLandcover"

GeospatialProvider == {SENTINEL_HUB, GOOGLE_EARTH_ENGINE, USGS_LANDCOVER, MOCK}

RequiredKeys == {"trees", "grass", "water", "buildings", "other"}

DEFAULT_CONFIG == [provider |-> MOCK, apiKey |-> "", useCache |-> TRUE]

---------------------------------------------------------------------------
(* JavaScript values *)

\* null / undefined where a breakdown is expected
Null == [null |-> TRUE]

\* an array of [a, b] arrays
ArrayOfPairs(items) ==
    [isArray |-> TRUE, elems |-> "array", items |-> items,
     type |-> "", coordinates |-> <<>>]

\* an array of {lat, lng} objects
ArrayOfObjects(items) ==
    [isArray |-> TRUE, elems |-> "object", items |-> items,
     type |-> "", coordinates |-> <<>>]

\* {type: 'Polygon', coordinates: [ring, ...]}
GeoJson(rings) ==
    [isArray |-> FALSE, elems |-> "", items |-> <<>>,
     type |-> "Polygon", coordinates |-> rings]

Abs(x) == IF x < 0 THEN -x ELSE x

\* Math.round of the non-negative rational num / den: floor(num/den + 1/2)
MathRound(num, den) == (2 * num + den) \div (2 * den)

MathMax(a, b) == IF a >= b THEN a ELSE b

\* strs.slice(i - 1).join(sep)
RECURSIVE JoinFrom(_, _, _)
JoinFrom(strs, sep, i) ==
    IF i > Len(strs) THEN ""
    ELSE IF i = Len(strs) THEN strs[i]
    ELSE strs[i] \o sep \o JoinFrom(strs, sep, i + 1)

\* strs.join(sep)
Join(strs, sep) == JoinFrom(strs, sep, 1)

\* ss.slice(i - 1).flat() on an array of arrays
RECURSIVE FlatFrom(_, _)
FlatFrom(ss, i) == IF i > Len(ss) THEN <<>> ELSE ss[i] \o FlatFrom(ss, i + 1)

\* Array.prototype.flat on an array of arrays
Flat(ss) == FlatFrom(ss, 1)

\* coord.join(',') on an array of numbers
JoinNumbers(coord) == Join([i \in 1..Len(coord) |-> ToString(coord[i])], ",")

\* coords.map(coord => coord.join(','))
JoinEach(coords) == [i \in 1..Len(coords) |-> JoinNumbers(coords[i])]

\* coordinates.map(coord => [coord[1], coord[0]])
SwapEach(coordinates) ==
    [i \in 1..Len(coordinates) |-> <<coordinates[i][2], coordinates[i][1]>>]

\* coordinates.map(coord => ({lat: coord[0], lng: coord[1]}))
LatLngEach(coordinates) ==
    [i \in 1..Len(coordinates) |->
        [lat |-> coordinates[i][1], lng |-> coordinates[i][2]]]


---------------------------------------------------------------------------
(* GeospatialService: pure helpers *)

\* a transformPolygon that wraps the ring without swapping the axes
transformPolygon_NoSwap(coordinates, provider) ==
    CASE provider = SENTINEL_HUB -> GeoJson(<< coordinates >>)
      [] provider = GOOGLE_EARTH_ENGINE -> GeoJson(<< coordinates >>)
      [] provider = USGS_LANDCOVER -> ArrayOfObjects(LatLngEach(coordinates))
      [] OTHER -> ArrayOfPairs(coordinates)

\* a transformPolygon that swaps the axes for every variant
transformPolygon_SwapAll(coordinates, provider) ==
    CASE provider = SENTINEL_HUB -> GeoJson(<< SwapEach(coordinates) >>)
      [] provider = GOOGLE_EARTH_ENGINE -> GeoJson(<< SwapEach(coordinates) >>)
      [] provider = USGS_LANDCOVER ->
           ArrayOfObjects(LatLngEach(SwapEach(coordinates)))
      [] OTHER -> ArrayOfPairs(SwapEach(coordinates))

\* transformPolygon, with this.config.provider passed as `provider`
transformPolygon(coordinates, provider) ==
    CASE provider = SENTINEL_HUB ->
           GeoJson(<< SwapEach(coordinates) >>)
      [] provider = GOOGLE_EARTH_ENGINE ->
           GeoJson(<< SwapEach(coordinates) >>)
      [] provider = USGS_LANDCOVER ->
           ArrayOfObjects(LatLngEach(coordinates))
      [] OTHER -> ArrayOfPairs(coordinates)

\* The message of the TypeError of calling .join on a {lat, lng} object
JoinTypeError == "coord.join is not a function"

\* getCacheKey: [ok |-> TRUE, key |-> the string] when it returns,
\* [ok |-> FALSE, message |-> ...] when it throws.  The JSON.stringify
\* fallback is for values with neither shape; transformPolygon returns none.
getCacheKey(polygon) ==
    IF polygon.isArray
    THEN IF polygon.elems = "array" \/ Len(polygon.items) = 0
         THEN [ok |-> TRUE, message |-> "",
               key |-> Join(JoinEach(polygon.items), ";")]
         ELSE [ok |-> FALSE, message |-> JoinTypeError, key |-> ""]
    ELSE [ok |-> TRUE, message |-> "",
          key |-> Join(JoinEach(Flat(polygon.coordinates)), ";")]

\* The sum of the loop of calculatePolygonArea over an array of pairs
RECURSIVE ShoelaceSum(_, _)
ShoelaceSum(coords, i) ==
    IF i > Len(coords) THEN 0
    ELSE LET j == (i % Len(coords)) + 1
         IN  coords[i][1] * coords[j][2] - coords[j][1] * coords[i][2]
               + ShoelaceSum(coords, i + 1)

\* calculatePolygonArea returning area / 2 in place of Math.abs(area / 2)
calculatePolygonArea_Signed(polygon) ==
    LET coords == IF polygon.isArray THEN polygon.items
                  ELSE IF Len(polygon.coordinates) > 0
                       THEN polygon.coordinates[1]
                       ELSE <<>>
    IN  IF Len(coords) < 3 THEN [nan |-> FALSE, twice |-> 0]
        ELSE IF polygon.isArray /\ polygon.elems = "object"
             THEN [nan |-> TRUE, twice |-> 0]
             ELSE [nan |-> FALSE, twice |-> ShoelaceSum(coords, 1)]

\* calculatePolygonArea: [nan |-> is the result NaN, twice |-> 2 * the result,
\* in square units].  Indexing a {lat, lng} object with 0 and 1 gives
\* undefined, and arithmetic on undefined gives NaN.
calculatePolygonArea(polygon) ==
    LET coords == IF polygon.isArray THEN polygon.items
                  ELSE IF Len(polygon.coordinates) > 0
                       THEN polygon.coordinates[1]
                       ELSE <<>>
    IN  IF Len(coords) < 3 THEN [nan |-> FALSE, twice |-> 0]
        ELSE IF polygon.isArray /\ polygon.elems = "object"
             THEN [nan |-> TRUE, twice |-> 0]
             ELSE [nan |-> FALSE, twice |-> Abs(ShoelaceSum(coords, 1))]

\* a threshold test that counts an area of exactly 0.001 as large
isLargeArea_AtLeast(area) ==
    /\ ~area.nan
    /\ area.twice * AreaThresholdDen >= 2 * UnitsPerDegree * UnitsPerDegree

\* area > 0.001, false for NaN
isLargeArea(area) ==
    /\ ~area.nan
    /\ area.twice * AreaThresholdDen > 2 * UnitsPerDegree * UnitsPerDegree

\* Math.round(Math.random() * bound) for Math.random() = n / RandDen
Draw(n, bound) == MathRound(n * bound, RandDen)

\* generateMockAnalysis without the clamp of `other` (totalArea - sum, as in
\* the component's earlier inline simulation)
generateMockAnalysis_NoClamp(polygon, random) ==
    LET large == isLargeArea(calculatePolygonArea(polygon))
        trees == Draw(random[1], IF large THEN 40 ELSE 20)
        grass == Draw(random[2], IF large THEN 30 ELSE 15)
        water == Draw(random[3], IF large THEN 15 ELSE 5)
        buildings == Draw(random[4], IF large THEN 20 ELSE 60)
    IN  [trees |-> trees, grass |-> grass, water |-> water,
         buildings |-> buildings,
         other |-> TotalArea - (trees + grass + water + buildings)]

\* generateMockAnalysis drawing within the large-area bounds whatever the area
generateMockAnalysis_LargeBounds(polygon, random) ==
    LET trees == Draw(random[1], 40)
        grass == Draw(random[2], 30)
        water == Draw(random[3], 15)
        buildings == Draw(random[4], 20)
        sum == trees + grass + water + buildings
    IN  [trees |-> trees, grass |-> grass, water |-> water,
         buildings |-> buildings, other |-> MathMax(0, TotalArea - sum)]

\* generateMockAnalysis; random = the four values of Math.random(), in the
\* order of the calls
generateMockAnalysis(polygon, random) ==
    LET area == calculatePolygonArea(polygon)
        large == isLargeArea(area)
        trees == Draw(random[1], IF large THEN 40 ELSE 20)
        grass == Draw(random[2], IF large THEN 30 ELSE 15)
        water == Draw(random[3], IF large THEN 15 ELSE 5)
        buildings == Draw(random[4], IF large THEN 20 ELSE 60)
        sum == trees + grass + water + buildings
    IN  [trees |-> trees, grass |-> grass, water |-> water,
         buildings |-> buildings, other |-> MathMax(0, TotalArea - sum)]

\* The setTimeout delay of a provider's stub (0: no timer)
Delay(provider) ==
    CASE provider = SENTINEL_HUB -> DelaySentinelHub
      [] provider = GOOGLE_EARTH_ENGINE -> DelayGoogleEarthEngine
      [] provider = USGS_LANDCOVER -> DelayUsgsLandcover
      [] OTHER -> 0

\* The message of the Error thrown by the catch block of analyzeLandCover
WrappedMessage(cause) == "Land cover analysis failed: " \o cause

---------------------------------------------------------------------------
(* Inputs *)

\* Coordinate arrays: one and two vertices, a triangle of area exactly 0.001
\* (small) and a triangle of a larger area
OneVertex == << <<10, 20>> >>
TwoVertices == << <<10, 20>>, <<30, 40>> >>
SmallTriangle == << <<0, 0>>, <<40, 0>>, <<0, 50>> >>
LargeTriangle == << <<0, 0>>, <<40, 0>>, <<0, 51>> >>

\* The coordinate arrays callers hand to the service
Polygons == {OneVertex, TwoVertices, SmallTriangle}

\* Values of Math.random(), as numerators over RandDen
RandomSamples ==
    {(k * RandDen) \div RandSteps : k \in 0..(RandSteps - 1)} \cup {RandDen - 1}

\* The four values of Math.random() of one generateMockAnalysis run inside
\* the service: all four at the least or all four at the greatest value
CallRandom == {<<n, n, n, n>> : n \in {0, RandDen - 1}}

\* Credentials passed to setProvider ("" stands for an omitted apiKey)
ApiKeys == {"", "key"}

\* Messages of the errors a provider's remote call may reject with
Causes == {"Network error"}

\* The calls of analyzeLandCover a behaviour may hold: MaxCalls made one by
\* one by a caller or by the component, one more where callers race
SpecCallIds == 1..MaxCalls
CallIds == 1..(MaxCalls + 1)

\* Polygons the drawing tool completes (Map hands over 3 points or more)
DrawnPolygons == {SmallTriangle, LargeTriangle}

\* Positions of the clicks on the map where an analysis follows the drawing
ClickLatLngs == {[lat |-> 0, lng |-> 0], [lat |-> 40, lng |-> 0]}

\* The arrays Map hands over for clicks on these positions
ClickedPolygons ==
    UNION {[1..n -> {<<p.lat, p.lng>> : p \in ClickLatLngs}] : n \in 3..MaxPoints}

\* getCacheKey(transformPolygon(coordinates, provider)), tabulated over the
\* coordinate arrays above
CacheKeys ==
    {<<coordinates, provider, getCacheKey(transformPolygon(coordinates, provider))>> :
        coordinates \in Polygons \cup DrawnPolygons \cup ClickedPolygons,
        provider \in GeospatialProvider}

\* generateMockAnalysis(transformPolygon(coordinates, provider), random),
\* tabulated likewise
MockAnalyses ==
    {<<coordinates, provider, random,
       generateMockAnalysis(transformPolygon(coordinates, provider), random)>> :
        coordinates \in Polygons \cup DrawnPolygons \cup ClickedPolygons,
        provider \in GeospatialProvider, random \in CallRandom}

\* this.getCacheKey(this.transformPolygon(coordinates)) under `provider`
CacheKeyOf(coordinates, provider) ==
    (CHOOSE t \in CacheKeys : t[1] = coordinates /\ t[2] = provider)[3]

\* this.generateMockAnalysis(this.transformPolygon(coordinates)) under
\* `provider`, Math.random() giving `random`
MockAnalysisOf(coordinates, provider, random) ==
    (CHOOSE t \in MockAnalyses :
        t[1] = coordinates /\ t[2] = provider /\ t[3] = random)[4]

---------------------------------------------------------------------------
(* GeospatialService: state and operations *)

\* new Map()
EmptyMap == [k \in {} |-> Null]

\* cache.set(key, value)
MapSet(map, key, value) ==
    [k \in (DOMAIN map) \cup {key} |-> IF k = key THEN value ELSE map[k]]

\* A call of analyzeLandCover that has not been made yet.
\*   pc         idle | timer (in a stub's setTimeout) | microtask (the
\*              provider's promise is resolved, the continuation is queued)
\*              | resolved | rejected
\*   provider   this.config.provider when the call was made
\*   history:   hit (served from the cache), invoked (a provider method was
\*              called), read (cache.get ran), wrote (cache.set ran),
\*              fault (the provider rejected), after (the calls settled
\*              before this one was made), cleared (those of them since
\*              whose settling the cache had been emptied), disturbed (what first
\*              emptied the cache since this call settled: "" nothing
\*              yet, "sameProvider" a setProvider naming the variant
\*              already set, "cleared" clearCache or another setProvider)
NoCall ==
    [pc |-> "idle", coordinates |-> <<>>, provider |-> "", result |-> Null,
     message |-> "", hit |-> FALSE, invoked |-> FALSE, read |-> FALSE,
     wrote |-> FALSE, fault |-> FALSE, after |-> {}, cleared |-> {},
     disturbed |-> ""]

Started(call) == call.pc # "idle"
Settled(call) == call.pc \in {"resolved", "rejected"}
InFlight(call) == call.pc \in {"timer", "microtask"}

\* The service object: its fields and the calls made on it
This == [config |-> config, cache |-> cache, calls |-> calls]

\* constructor(config)
Constructor(partial) ==
    [config |-> partial, cache |-> EmptyMap, calls |-> [c \in CallIds |-> NoCall]]

\* analyzeLandCover with the cache lookup inside the try block
analyzeLandCover_LookupInTry(this, c, coordinates, random) ==
    LET provider == this.config.provider
        cacheKey == CacheKeyOf(coordinates, provider)
        call == [this.calls[c] EXCEPT
                   !.coordinates = coordinates,
                   !.provider = provider,
                   !.after = {d \in CallIds : Settled(this.calls[d])},
                   !.cleared = {d \in CallIds : /\ Settled(this.calls[d])
                                                /\ this.calls[d].disturbed # ""}]
        settled ==
            IF this.config.useCache /\ ~cacheKey.ok
            THEN [call EXCEPT !.pc = "rejected",
                              !.message = WrappedMessage(cacheKey.message)]
            ELSE IF this.config.useCache /\ cacheKey.key \in DOMAIN this.cache
            THEN [call EXCEPT !.pc = "resolved", !.read = TRUE, !.hit = TRUE,
                              !.result = this.cache[cacheKey.key]]
            ELSE IF Delay(provider) = 0
            THEN [call EXCEPT !.pc = "microtask", !.invoked = TRUE,
                              !.read = this.config.useCache,
                              !.result = MockAnalysisOf(coordinates, provider, random)]
            ELSE [call EXCEPT !.pc = "timer", !.invoked = TRUE,
                              !.read = this.config.useCache]
    IN  [this EXCEPT !.calls[c] = settled]

\* analyzeLandCover up to its first await (lines 93-128): transform, cache
\* lookup, provider dispatch.  generateMockAnalysis has no await, so the mock
\* provider draws its numbers here; a stub starts its timer.
analyzeLandCover(this, c, coordinates, random) ==
    LET provider == this.config.provider
        cacheKey == CacheKeyOf(coordinates, provider)
        call == [this.calls[c] EXCEPT
                   !.coordinates = coordinates,
                   !.provider = provider,
                   !.after = {d \in CallIds : Settled(this.calls[d])},
                   !.cleared = {d \in CallIds : /\ Settled(this.calls[d])
                                                /\ this.calls[d].disturbed # ""}]
        settled ==
            IF this.config.useCache /\ ~cacheKey.ok
            THEN [call EXCEPT !.pc = "rejected", !.message = cacheKey.message]
            ELSE IF this.config.useCache /\ cacheKey.key \in DOMAIN this.cache
            THEN [call EXCEPT !.pc = "resolved", !.read = TRUE, !.hit = TRUE,
                              !.result = this.cache[cacheKey.key]]
            ELSE IF Delay(provider) = 0
            THEN [call EXCEPT !.pc = "microtask", !.invoked = TRUE,
                              !.read = this.config.useCache,
                              !.result = MockAnalysisOf(coordinates, provider, random)]
            ELSE [call EXCEPT !.pc = "timer", !.invoked = TRUE,
                              !.read = this.config.useCache]
    IN  [this EXCEPT !.calls[c] = settled]

\* a continuation that leaves an entry already stored as it is
resume_KeepFirst(this, c, result) ==
    LET call == this.calls[c]
        cacheKey == CacheKeyOf(call.coordinates, call.provider)
    IN  IF ~this.config.useCache
        THEN [this EXCEPT !.calls[c].pc = "resolved",
                          !.calls[c].result = result]
        ELSE IF ~cacheKey.ok
        THEN [this EXCEPT !.calls[c].pc = "rejected",
                          !.calls[c].result = Null,
                          !.calls[c].message = WrappedMessage(cacheKey.message)]
        ELSE [this EXCEPT !.cache = IF cacheKey.key \in DOMAIN this.cache
                                    THEN this.cache
                                    ELSE MapSet(this.cache, cacheKey.key, result),
                          !.calls[c].pc = "resolved",
                          !.calls[c].wrote = TRUE,
                          !.calls[c].result = result]

\* a continuation that swaps the axes of the caller's array in place
resume_SwapInPlace(this, c, result) ==
    LET call == this.calls[c]
        cacheKey == CacheKeyOf(call.coordinates, call.provider)
    IN  IF ~this.config.useCache
        THEN [this EXCEPT !.calls[c].pc = "resolved",
                          !.calls[c].coordinates = SwapEach(@),
                          !.calls[c].result = result]
        ELSE IF ~cacheKey.ok
        THEN [this EXCEPT !.calls[c].pc = "rejected",
                          !.calls[c].result = Null,
                          !.calls[c].message = WrappedMessage(cacheKey.message)]
        ELSE [this EXCEPT !.cache = MapSet(this.cache, cacheKey.key, result),
                          !.calls[c].pc = "resolved",
                          !.calls[c].coordinates = SwapEach(@),
                          !.calls[c].wrote = TRUE,
                          !.calls[c].result = result]

\* a continuation whose cache holds one entry: storing evicts the others
resume_SingleEntry(this, c, result) ==
    LET call == this.calls[c]
        cacheKey == CacheKeyOf(call.coordinates, call.provider)
    IN  IF ~this.config.useCache
        THEN [this EXCEPT !.calls[c].pc = "resolved",
                          !.calls[c].result = result]
        ELSE IF ~cacheKey.ok
        THEN [this EXCEPT !.calls[c].pc = "rejected",
                          !.calls[c].result = Null,
                          !.calls[c].message = WrappedMessage(cacheKey.message)]
        ELSE [this EXCEPT !.cache = MapSet(EmptyMap, cacheKey.key, result),
                          !.calls[c].pc = "resolved",
                          !.calls[c].wrote = TRUE,
                          !.calls[c].result = result]

\* a continuation that stores the result whatever the cache toggle says
resume_AlwaysStore(this, c, result) ==
    LET call == this.calls[c]
        cacheKey == CacheKeyOf(call.coordinates, call.provider)
    IN  IF ~cacheKey.ok
        THEN [this EXCEPT !.calls[c].pc = "rejected",
                          !.calls[c].result = Null,
                          !.calls[c].message = WrappedMessage(cacheKey.message)]
        ELSE [this EXCEPT !.cache = MapSet(this.cache, cacheKey.key, result),
                          !.calls[c].pc = "resolved",
                          !.calls[c].wrote = TRUE,
                          !.calls[c].result = result]

\* a continuation that does not store when the provider was switched while
\* the call was in flight
resume_DropIfSwitched(this, c, result) ==
    LET call == this.calls[c]
        cacheKey == CacheKeyOf(call.coordinates, call.provider)
    IN  IF ~this.config.useCache \/ this.config.provider # call.provider
        THEN [this EXCEPT !.calls[c].pc = "resolved",
                          !.calls[c].result = result]
        ELSE IF ~cacheKey.ok
        THEN [this EXCEPT !.calls[c].pc = "rejected",
                          !.calls[c].result = Null,
                          !.calls[c].message = WrappedMessage(cacheKey.message)]
        ELSE [this EXCEPT !.cache = MapSet(this.cache, cacheKey.key, result),
                          !.calls[c].pc = "resolved",
                          !.calls[c].wrote = TRUE,
                          !.calls[c].result = result]

\* analyzeLandCover after the provider's promise resolved with `result`
\* (lines 130-140): store, return; a throw of getCacheKey is caught.
resume(this, c, result) ==
    LET call == this.calls[c]
        cacheKey == CacheKeyOf(call.coordinates, call.provider)
    IN  IF ~this.config.useCache
        THEN [this EXCEPT !.calls[c].pc = "resolved",
                          !.calls[c].result = result]
        ELSE IF ~cacheKey.ok
        THEN [this EXCEPT !.calls[c].pc = "rejected",
                          !.calls[c].result = Null,
                          !.calls[c].message = WrappedMessage(cacheKey.message)]
        ELSE [this EXCEPT !.cache = MapSet(this.cache, cacheKey.key, result),
                          !.calls[c].pc = "resolved",
                          !.calls[c].wrote = TRUE,
                          !.calls[c].result = result]

\* a catch block that rethrows the cause as it came
catch_Rethrow(this, c, cause) ==
    [this EXCEPT !.calls[c].pc = "rejected",
                 !.calls[c].fault = TRUE,
                 !.calls[c].message = cause]

\* analyzeLandCover after the provider's promise rejected with `cause`
\* (lines 137-140)
catch(this, c, cause) ==
    [this EXCEPT !.calls[c].pc = "rejected",
                 !.calls[c].fault = TRUE,
                 !.calls[c].message = WrappedMessage(cause)]

\* The settled calls have seen operation `op` clear the cache (history)
Disturb(cs, op) ==
    [c \in CallIds |-> IF Settled(cs[c]) /\ cs[c].disturbed = ""
                       THEN [cs[c] EXCEPT !.disturbed = op]
                       ELSE cs[c]]

\* a setProvider that assigns the credential it is given, empty or not
setProvider_AlwaysAssign(this, provider, apiKey) ==
    [this EXCEPT !.config.provider = provider,
                 !.config.apiKey = apiKey,
                 !.cache = EmptyMap,
                 !.calls = Disturb(@, IF provider = this.config.provider
                                      THEN "sameProvider" ELSE "cleared")]

\* a setProvider that keeps the cache when the variant does not change
setProvider_KeepIfSame(this, provider, apiKey) ==
    [this EXCEPT !.config.provider = provider,
                 !.config.apiKey = IF apiKey # "" THEN apiKey ELSE @,
                 !.cache = IF provider = this.config.provider THEN @ ELSE EmptyMap,
                 !.calls = Disturb(@, IF provider = this.config.provider
                                      THEN "sameProvider" ELSE "cleared")]

\* setProvider
setProvider(this, provider, apiKey) ==
    [this EXCEPT !.config.provider = provider,
                 !.config.apiKey = IF apiKey # "" THEN apiKey ELSE @,
                 !.cache = EmptyMap,
                 !.calls = Disturb(@, IF provider = this.config.provider
                                      THEN "sameProvider" ELSE "cleared")]

\* clearCache
clearCache(this) ==
    [this EXCEPT !.cache = EmptyMap, !.calls = Disturb(@, "cleared")]

\* The next state of the service is `next`
Becomes(next) ==
    /\ config' = next.config
    /\ cache' = next.cache
    /\ calls' = next.calls

\* No continuation is queued (neither of analyzeLandCover nor of the
\* performAnalysis awaiting it): the event loop may run a timer or a UI event
MicrotasksDone ==
    /\ \A c \in CallIds : calls[c].pc # "microtask"
    /\ uiCall # 0 => ~Settled(calls[uiCall])

\* setTimeout callbacks run in the order of their expiry: a call made earlier
\* with a delay no longer than this one's has fired before it
TimerDue(c) ==
    /\ calls[c].pc = "timer"
    /\ MicrotasksDone
    /\ \A d \in 1..(c - 1) :
          calls[d].pc = "timer" => Delay(calls[d].provider) > Delay(calls[c].provider)

---------------------------------------------------------------------------
(* Actions of a caller of the service and of the event loop *)

\* a caller calls analyzeLandCover(coordinates)
AnalyzeLandCover(c, coordinates) ==
    /\ calls[c].pc = "idle"
    /\ \A d \in 1..(c - 1) : Started(calls[d])
    /\ \E random \in CallRandom :
          Becomes(analyzeLandCover(This, c, coordinates, random))
    /\ UNCHANGED <<uiVars, probe>>

\* the timer of a stub fires: generateMockAnalysis runs and the call goes on
ProviderTimer(c) ==
    /\ TimerDue(c)
    /\ \E random \in CallRandom :
          Becomes(resume(This, c,
                    MockAnalysisOf(calls[c].coordinates, calls[c].provider, random)))
    /\ UNCHANGED <<uiVars, probe>>

\* the remote call a stub stands for fails
ProviderRejects(c) ==
    /\ TimerDue(c)
    /\ \E cause \in Causes : Becomes(catch(This, c, cause))
    /\ UNCHANGED <<uiVars, probe>>

\* the continuation of a call on the mock provider runs; continuations run
\* in the order they were queued
Resume(c) ==
    /\ calls[c].pc = "microtask"
    /\ \A d \in 1..(c - 1) : calls[d].pc # "microtask"
    /\ Becomes(resume(This, c, calls[c].result))
    /\ UNCHANGED <<uiVars, probe>>

\* a caller calls setProvider(provider, apiKey)
SetProvider(provider, apiKey) ==
    /\ Becomes(setProvider(This, provider, apiKey))
    /\ UNCHANGED <<uiVars, probe>>

\* a caller calls clearCache()
ClearCache ==
    /\ Becomes(clearCache(This))
    /\ UNCHANGED <<uiVars, probe>>

\* The service alone, constructed with any configuration
InitService ==
    /\ \E provider \in GeospatialProvider, useCache \in BOOLEAN :
          LET this == Constructor([DEFAULT_CONFIG EXCEPT !.provider = provider,
                                                         !.useCache = useCache])
          IN  /\ config = this.config
              /\ cache = this.cache
              /\ calls = this.calls

\* The closure of Map's effect after mounting: no points placed.
\*   completeButton  the component is the variant with the Complete Polygon
\*                   button and the isDrawing flag (FALSE: components/Map.tsx)
\*   points          the LatLng objects pushed by the click handler
\*   isDrawing       the flag of the variant (stays FALSE in Map.tsx)
\*   created         what the last handler run passed to onPolygonCreated
\*                   (Null: it did not call it)
NoDrawing(completeButton) ==
    [completeButton |-> completeButton, points |-> <<>>, isDrawing |-> FALSE,
     created |-> Null]

InitUI ==
    /\ polygonCoordinates = [null |-> TRUE, value |-> <<>>]
    /\ analysisResults = Null
    /\ isAnalyzing = FALSE
    /\ error = ""
    /\ selectedProvider = MOCK
    /\ uiCall = 0
    /\ drawing = NoDrawing(FALSE)

Init ==
    /\ InitService
    /\ InitUI
    /\ probe = Null

Next ==
    \/ \E c \in SpecCallIds, coordinates \in Polygons :
          AnalyzeLandCover(c, coordinates)
    \/ \E c \in CallIds : ProviderTimer(c)
    \/ \E c \in CallIds : ProviderRejects(c)
    \/ \E c \in CallIds : Resume(c)
    \/ \E provider \in GeospatialProvider, apiKey \in ApiKeys :
          SetProvider(provider, apiKey)
    \/ ClearCache

Spec == Init /\ [][Next]_vars

---------------------------------------------------------------------------
(* App and the Analysis component *)

NoPolygonMessage ==
    "No polygon selected. Please draw a property boundary on the map."

\* disabled= of the Analyze button and of the provider select
AnalyzeDisabled == isAnalyzing \/ polygonCoordinates.null
SelectDisabled == isAnalyzing

\* The label of the Analyze button
ButtonLabel == IF isAnalyzing THEN "Analyzing..." ELSE "Analyze Property"

\* The call a click on Analyze would make: the least one not made yet
FreeCall(c) ==
    /\ calls[c].pc = "idle"
    /\ \A d \in 1..(c - 1) : Started(calls[d])

\* App.handlePolygonCreated
handlePolygonCreated(coordinates) ==
    /\ MicrotasksDone
    /\ polygonCoordinates' = [null |-> FALSE, value |-> coordinates]
    /\ analysisResults' = Null
    /\ UNCHANGED <<serviceVars, isAnalyzing, error, selectedProvider, uiCall,
                   drawing, probe>>

\* Analysis.handleProviderChange
handleProviderChange(provider) ==
    /\ MicrotasksDone
    /\ ~SelectDisabled
    /\ selectedProvider' = provider
    /\ UNCHANGED <<serviceVars, polygonCoordinates, analysisResults, isAnalyzing,
                   error, uiCall, drawing, probe>>

\* a performAnalysis that forgets setIsAnalyzing(true)
performAnalysis_NoFlag(c, random) ==
    IF Len(polygonCoordinates.value) = 0
    THEN /\ error' = NoPolygonMessage
         /\ UNCHANGED <<serviceVars, isAnalyzing, uiCall>>
    ELSE /\ UNCHANGED isAnalyzing
         /\ error' = ""
         /\ Becomes(analyzeLandCover(setProvider(This, selectedProvider, ""),
                                      c, polygonCoordinates.value, random))
         /\ uiCall' = c

\* Analysis.performAnalysis up to its await, run by a click on the enabled
\* Analyze button (lines 34-48)
performAnalysis(c, random) ==
    IF Len(polygonCoordinates.value) = 0
    THEN /\ error' = NoPolygonMessage
         /\ UNCHANGED <<serviceVars, isAnalyzing, uiCall>>
    ELSE /\ isAnalyzing' = TRUE
         /\ error' = ""
         /\ Becomes(analyzeLandCover(setProvider(This, selectedProvider, ""),
                                      c, polygonCoordinates.value, random))
         /\ uiCall' = c

PerformAnalysis(c) ==
    /\ MicrotasksDone
    /\ ~AnalyzeDisabled
    /\ FreeCall(c)
    /\ \E random \in CallRandom : performAnalysis(c, random)
    /\ UNCHANGED <<polygonCoordinates, analysisResults, selectedProvider,
                   drawing, probe>>

\* a performAnalysis with setIsAnalyzing(false) at the end of the try block
\* instead of in a finally block
performAnalysisResume_NoFinally(call) ==
    IF call.pc = "resolved"
    THEN /\ analysisResults' = call.result
         /\ isAnalyzing' = FALSE
         /\ UNCHANGED error
    ELSE /\ error' = "Analysis failed: " \o call.message
         /\ UNCHANGED <<analysisResults, isAnalyzing>>

\* a performAnalysis that delivers a breakdown only if the polygon App holds
\* is still the one that was analyzed
performAnalysisResume_DropIfStale(call) ==
    /\ IF call.pc = "resolved"
       THEN /\ analysisResults' = IF call.coordinates = polygonCoordinates.value
                                   THEN call.result
                                   ELSE analysisResults
            /\ UNCHANGED error
       ELSE /\ error' = "Analysis failed: " \o call.message
            /\ UNCHANGED analysisResults
    /\ isAnalyzing' = FALSE

\* Analysis.performAnalysis after its await (lines 48-57), with
\* App.handleAnalysisComplete as onAnalysisComplete
performAnalysisResume(call) ==
    /\ IF call.pc = "resolved"
       THEN /\ analysisResults' = call.result
            /\ UNCHANGED error
       ELSE /\ error' = "Analysis failed: " \o call.message
            /\ UNCHANGED analysisResults
    /\ isAnalyzing' = FALSE

PerformAnalysisResume ==
    /\ uiCall # 0
    /\ Settled(calls[uiCall])
    /\ \A c \in CallIds : calls[c].pc # "microtask"
    /\ performAnalysisResume(calls[uiCall])
    /\ uiCall' = 0
    /\ UNCHANGED <<serviceVars, polygonCoordinates, selectedProvider,
                   drawing, probe>>

\* The application: the singleton service (default configuration) behind
\* App and Analysis
InitApp ==
    /\ LET this == Constructor(DEFAULT_CONFIG)
       IN  /\ config = this.config
           /\ cache = this.cache
           /\ calls = this.calls
    /\ InitUI
    /\ probe = Null

NextUI ==
    \/ \E coordinates \in DrawnPolygons : handlePolygonCreated(coordinates)
    \/ \E provider \in GeospatialProvider : handleProviderChange(provider)
    \/ \E c \in SpecCallIds : PerformAnalysis(c)
    \/ PerformAnalysisResume
    \/ \E c \in CallIds : ProviderTimer(c)
    \/ \E c \in CallIds : ProviderRejects(c)
    \/ \E c \in CallIds : Resume(c)

SpecUI == InitApp /\ [][NextUI]_vars

\* A step of the event loop: a queued continuation runs, or a timer expires
\* and the provider's call ends one way or the other
EventLoopStep ==
    \/ PerformAnalysisResume
    \/ \E c \in CallIds : Resume(c)
    \/ \E c \in CallIds : ProviderTimer(c) \/ ProviderRejects(c)

\* The event loop does not stop while a continuation is queued or a timer is
\* pending; nothing obliges the user to act
FairSpecUI == SpecUI /\ WF_vars(EventLoopStep)

---------------------------------------------------------------------------
(* What App renders.  A text is the sequence of its words. *)

\* config.ts: apiConfig.geospatial.provider
apiConfigProvider ==
    [development |-> MOCK, test |-> MOCK, production |-> SENTINEL_HUB]

\* config.ts: getCurrentConfig, for process.env.NODE_ENV = nodeEnv
getCurrentConfig(nodeEnv) ==
    LET env == IF nodeEnv = "development" THEN "development"
               ELSE IF nodeEnv = "test" THEN "test"
               ELSE "production"
    IN  [geospatial |-> [provider |-> apiConfigProvider[env], useCache |-> TRUE]]

\* App: <h1> and <p> of the header
HeaderTitle == <<"Property", "Land", "Cover", "Analysis">>
HeaderDescription ==
    <<"Draw", "a", "property", "boundary", "on", "the", "map", "and",
      "analyze", "land", "cover", "types">>

\* App: the text of the <p> of the footer
FooterText(nodeEnv) ==
    <<"This", "application", "uses">>
      \o (IF getCurrentConfig(nodeEnv).geospatial.provider = "mock"
          THEN <<"simulated", "data", "for", "demonstration", "purposes">>
          ELSE <<"satellite", "imagery", "from", "real", "geospatial",
                 "providers">>)
      \o <<".", "Map", "data", "(c)", "OpenStreetMap", "contributors", ".">>

\* Analysis: the words of the button's label
ButtonLabelText ==
    IF isAnalyzing THEN <<"Analyzing...">> ELSE <<"Analyze", "Property">>

\* The texts of the elements App renders with the Map component replaced by
\* the stub of App.test.tsx (error and results panels appear when set)
AppTexts(nodeEnv) ==
    {HeaderTitle, HeaderDescription, FooterText(nodeEnv), ButtonLabelText,
     <<"Map", "Component", "Mock">>}

\* The pattern of a regular expression that is plain words matches `text`
\* somewhere
Matches(text, pattern) ==
    \E i \in 1..(Len(text) - Len(pattern) + 1) :
       SubSeq(text, i, i + Len(pattern) - 1) = pattern

\* screen.getByText(pattern), as the set of the texts it finds
getByText(pattern, nodeEnv) ==
    {text \in AppTexts(nodeEnv) : Matches(text, pattern)}

---------------------------------------------------------------------------
(* The Map component: the drawing tool *)

\* The e.latlng of the clicks
LatLngs ==
    {[lat |-> 37775, lng |-> -122419], [lat |-> 37780, lng |-> -122410],
     [lat |-> 37770, lng |-> -122400]}

\* points.map(p => [p.lat, p.lng])
LatLngPairs(points) ==
    [i \in 1..Len(points) |-> <<points[i].lat, points[i].lng>>]

\* onPolygonCreated as App passes it: handlePolygonCreated
onPolygonCreated(coordinates) ==
    /\ polygonCoordinates' = [null |-> FALSE, value |-> coordinates]
    /\ analysisResults' = Null

\* clearDrawing of the variant; the body of the Clear Points handler
clearDrawing(d) == [d EXCEPT !.points = <<>>, !.isDrawing = FALSE]

\* a completion test that is content with 2 points
Completes_TwoPoints(d) ==
    Len(d.points) >= 2 /\ (d.completeButton => d.isDrawing)

\* The test of the completion handlers: points.length >= 3, and isDrawing
\* in the variant
Completes(d) ==
    Len(d.points) >= 3 /\ (d.completeButton => d.isDrawing)

\* The body of the dblclick handler and of the Complete button's handler
completePolygon ==
    IF Completes(drawing)
    THEN /\ onPolygonCreated(LatLngPairs(drawing.points))
         /\ drawing' = [drawing EXCEPT !.created = LatLngPairs(drawing.points),
                                       !.isDrawing = FALSE]
    ELSE /\ drawing' = [drawing EXCEPT !.created = Null]
         /\ UNCHANGED <<polygonCoordinates, analysisResults>>

\* map.on('click'): the variant starts a new drawing when none is open
MapClick(latlng) ==
    LET d == IF drawing.completeButton /\ ~drawing.isDrawing
             THEN [clearDrawing(drawing) EXCEPT !.isDrawing = TRUE]
             ELSE drawing
    IN  /\ Len(d.points) < MaxPoints
        /\ drawing' = [d EXCEPT !.points = Append(@, latlng), !.created = Null]
        /\ UNCHANGED <<serviceVars, polygonCoordinates, analysisResults,
                       isAnalyzing, error, selectedProvider, uiCall, probe>>

\* map.on('dblclick')
MapDblClick ==
    /\ completePolygon
    /\ UNCHANGED <<serviceVars, isAnalyzing, error, selectedProvider, uiCall, probe>>

\* a click on the Complete Polygon button of the variant
CompleteButtonClick ==
    /\ drawing.completeButton
    /\ completePolygon
    /\ UNCHANGED <<serviceVars, isAnalyzing, error, selectedProvider, uiCall, probe>>

\* a Clear Points handler that also resets what App holds
ClearPoints_ResetsApp ==
    /\ drawing' = [clearDrawing(drawing) EXCEPT !.created = Null]
    /\ polygonCoordinates' = [null |-> TRUE, value |-> <<>>]
    /\ analysisResults' = Null
    /\ UNCHANGED <<serviceVars, isAnalyzing, error, selectedProvider, uiCall,
                   probe>>

\* a click on the Clear Points button
ClearPoints ==
    /\ drawing' = [clearDrawing(drawing) EXCEPT !.created = Null]
    /\ UNCHANGED <<serviceVars, polygonCoordinates, analysisResults,
                   isAnalyzing, error, selectedProvider, uiCall, probe>>

\* App with either Map component mounted
InitMap ==
    /\ LET this == Constructor(DEFAULT_CONFIG)
       IN  /\ config = this.config
           /\ cache = this.cache
           /\ calls = this.calls
    /\ polygonCoordinates = [null |-> TRUE, value |-> <<>>]
    /\ analysisResults = Null
    /\ isAnalyzing = FALSE
    /\ error = ""
    /\ selectedProvider = MOCK
    /\ uiCall = 0
    /\ \E completeButton \in BOOLEAN : drawing = NoDrawing(completeButton)
    /\ probe = Null

NextMap ==
    \/ \E latlng \in LatLngs : MapClick(latlng)
    \/ MapDblClick
    \/ CompleteButtonClick
    \/ ClearPoints

SpecMap == InitMap /\ [][NextMap]_vars

\* App with the map and the Analysis component: events of the user are
\* handled when no continuation is queued
NextApp ==
    \/ \E latlng \in ClickLatLngs : MicrotasksDone /\ MapClick(latlng)
    \/ MicrotasksDone /\ MapDblClick
    \/ MicrotasksDone /\ CompleteButtonClick
    \/ MicrotasksDone /\ ClearPoints
    \/ PerformAnalysis(1)
    \/ PerformAnalysisResume
    \/ \E c \in CallIds : Resume(c)

SpecApp == InitMap /\ [][NextApp]_vars

---------------------------------------------------------------------------
(* The mock generator on its own *)

UnitSquare == << <<0, 0>>, <<1000, 0>>, <<1000, 1000>>, <<0, 1000>> >>

MockPolygons == {OneVertex, SmallTriangle, LargeTriangle, UnitSquare}

InitMock ==
    /\ LET this == Constructor(DEFAULT_CONFIG)
       IN  /\ config = this.config
           /\ cache = this.cache
           /\ calls = this.calls
    /\ InitUI
    /\ \E coordinates \in MockPolygons, provider \in GeospatialProvider,
          random \in RandomSamples \X RandomSamples \X RandomSamples \X RandomSamples :
          probe = [coordinates |-> coordinates, provider |-> provider,
                   random |-> random, result |-> Null]

\* generateMockAnalysis on the geometry transformPolygon made for a provider
GenerateMockAnalysis ==
    /\ probe.result = Null
    /\ probe' = [probe EXCEPT !.result =
                   generateMockAnalysis(
                     transformPolygon(probe.coordinates, probe.provider),
                     probe.random)]
    /\ UNCHANGED <<serviceVars, uiVars>>

NextMock == GenerateMockAnalysis

SpecMock == InitMock /\ [][NextMock]_vars

---------------------------------------------------------------------------
(* transformPolygon and getCacheKey on their own *)

\* Vertices [lat, lng], in units of 1/UnitsPerDegree degree; the set is
\* closed under the swap of the axes
PureVertices == {<<37775, -122419>>, <<-122419, 37775>>, <<0, 0>>}

\* All coordinate arrays of at most n vertices
CoordinateArrays(n) ==
    UNION {[1..len -> PureVertices] : len \in 0..n}

PurePolygons == CoordinateArrays(MaxVertices)

\* probe: the caller's array (coordinates), the variant set, what
\* transformPolygon returned (polygon) and what getCacheKey returned (key)
InitPure ==
    /\ LET this == Constructor(DEFAULT_CONFIG)
       IN  /\ config = this.config
           /\ cache = this.cache
           /\ calls = this.calls
    /\ InitUI
    /\ \E coordinates \in PurePolygons, provider \in GeospatialProvider :
          probe = [coordinates |-> coordinates, provider |-> provider,
                   polygon |-> Null, key |-> Null]

\* this.transformPolygon(coordinates)
TransformPolygon ==
    /\ probe.polygon = Null
    /\ probe' = [probe EXCEPT !.polygon =
                   transformPolygon(probe.coordinates, probe.provider)]
    /\ UNCHANGED <<serviceVars, uiVars>>

\* this.getCacheKey(polygon)
GetCacheKey ==
    /\ probe.polygon # Null
    /\ probe.key = Null
    /\ probe' = [probe EXCEPT !.key = getCacheKey(probe.polygon)]
    /\ UNCHANGED <<serviceVars, uiVars>>

NextPure == TransformPolygon \/ GetCacheKey

SpecPure == InitPure /\ [][NextPure]_vars

---------------------------------------------------------------------------
(* The area computation on its own *)

\* Vertices in units of 1 / UnitsPerDegree degree: the corners of a triangle
\* of area 0.00102
AreaVertices == {<<0, 0>>, <<40, 0>>, <<0, 51>>}

\* The arrays of up to MaxVertices of these vertices, in either direction of
\* traversal, and the unit square
AreaPolygons ==
    UNION {[1..n -> AreaVertices] : n \in 0..MaxVertices} \cup {UnitSquare}

\* probe: the caller's array (coordinates), the variant set, what
\* transformPolygon returned (polygon) and what calculatePolygonArea
\* returned (area)
InitArea ==
    /\ LET this == Constructor(DEFAULT_CONFIG)
       IN  /\ config = this.config
           /\ cache = this.cache
           /\ calls = this.calls
    /\ InitUI
    /\ \E coordinates \in AreaPolygons, provider \in GeospatialProvider :
          probe = [coordinates |-> coordinates, provider |-> provider,
                   polygon |-> Null, area |-> Null]

\* this.calculatePolygonArea(polygon), as generateMockAnalysis calls it
CalculatePolygonArea ==
    /\ probe.polygon # Null
    /\ probe.area = Null
    /\ probe' = [probe EXCEPT !.area = calculatePolygonArea(probe.polygon)]
    /\ UNCHANGED <<serviceVars, uiVars>>

NextArea == TransformPolygon \/ CalculatePolygonArea

SpecArea == InitArea /\ [][NextArea]_vars

---------------------------------------------------------------------------
(* The configuration of the service over provider switches *)

\* The service constructed with any configuration, credential included.
\* probe: the configuration after construction (initial) and the arguments
\* of the calls of setProvider so far, in order (switches)
InitConfig ==
    /\ \E provider \in GeospatialProvider, apiKey \in ApiKeys,
          useCache \in BOOLEAN :
          LET this == Constructor([provider |-> provider, apiKey |-> apiKey,
                                   useCache |-> useCache])
          IN  /\ config = this.config
              /\ cache = this.cache
              /\ calls = this.calls
              /\ probe = [initial |-> this.config, switches |-> <<>>]
    /\ InitUI

\* a caller calls setProvider(provider, apiKey); apiKey = "" stands for a
\* call without the optional argument as well
SetProviderCall(provider, apiKey) ==
    /\ Len(probe.switches) < MaxSwitches
    /\ Becomes(setProvider(This, provider, apiKey))
    /\ probe' = [probe EXCEPT !.switches = Append(@, <<provider, apiKey>>)]
    /\ UNCHANGED uiVars

NextConfig ==
    \/ AnalyzeLandCover(1, SmallTriangle)
    \/ \E c \in CallIds : ProviderTimer(c)
    \/ \E c \in CallIds : ProviderRejects(c)
    \/ \E c \in CallIds : Resume(c)
    \/ \E provider \in GeospatialProvider, apiKey \in ApiKeys :
          SetProviderCall(provider, apiKey)
    \/ ClearCache

SpecConfig == InitConfig /\ [][NextConfig]_vars

---------------------------------------------------------------------------
(* Callers that do not wait for each other *)

\* The service with caching enabled and any of the providers that resolve
InitRace ==
    /\ \E provider \in {MOCK, SENTINEL_HUB, GOOGLE_EARTH_ENGINE} :
          LET this == Constructor([DEFAULT_CONFIG EXCEPT !.provider = provider])
          IN  /\ config = this.config
              /\ cache = this.cache
              /\ calls = this.calls
    /\ InitUI
    /\ probe = Null

NextRace ==
    \/ \E c \in CallIds, coordinates \in DrawnPolygons :
          AnalyzeLandCover(c, coordinates)
    \/ \E c \in CallIds : ProviderTimer(c)
    \/ \E c \in CallIds : Resume(c)

SpecRace == InitRace /\ [][NextRace]_vars

---------------------------------------------------------------------------
(* Properties *)

\* Every call made before c had settled when c was made: a sequential run
Sequential(c) == \A d \in 1..(c - 1) : d \in calls[c].after

FourSum(r) == r.trees + r.grass + r.water + r.buildings

\* C1: a call of analyzeLandCover on a polygon of fewer than 3 vertices is
\* rejected at once, without a provider call and without the cache being
\* read or written.
C1_AnalyzabilityGate ==
    \A c \in CallIds :
       (Started(calls[c]) /\ Len(calls[c].coordinates) < 3)
          => /\ calls[c].pc = "rejected"
             /\ ~calls[c].invoked
             /\ ~calls[c].read
             /\ ~calls[c].wrote

\* C2: with caching enabled, when a call is made after an earlier call on
\* the same polygon has settled, with the same provider set and the cache not
\* emptied in between, both calls return a breakdown, the same one, and the
\* later call does not call the provider.  (An earlier call whose remote
\* provider failed is not in the claim's scope.)
C2_CacheIdempotence ==
    \A c1, c2 \in CallIds :
       ( /\ config.useCache
         /\ c1 \in calls[c2].after
         /\ Settled(calls[c2])
         /\ Len(calls[c1].coordinates) >= 3
         /\ calls[c1].coordinates = calls[c2].coordinates
         /\ calls[c1].provider = calls[c2].provider
         /\ calls[c1].disturbed = ""
         /\ ~calls[c1].fault )
          => /\ calls[c1].pc = "resolved"
             /\ calls[c2].pc = "resolved"
             /\ calls[c2].result = calls[c1].result
             /\ ~calls[c2].invoked

\* C3: in a sequential run, when a polygon was analyzed under provider A,
\* the provider was then switched to B (which emptied the cache), and the
\* same polygon is analyzed again, the second call is not served from the
\* cache and calls the provider.
C3_InvalidationOnSwitch ==
    \A c1, c2 \in CallIds :
       ( /\ c1 < c2
         /\ Sequential(c1) /\ Sequential(c2)
         /\ calls[c1].pc = "resolved"
         /\ Started(calls[c2])
         /\ Len(calls[c1].coordinates) >= 3
         /\ calls[c1].coordinates = calls[c2].coordinates
         /\ calls[c1].provider # calls[c2].provider
         /\ c1 \in calls[c2].cleared )
          => /\ ~calls[c2].hit
             /\ calls[c2].invoked

\* C4: in the application (caching enabled), a repeated Analyze click on the
\* same polygon with the same provider selected is served from the cache and
\* shows the breakdown of the earlier click.
C4_RepeatClickServedFromCache ==
    \A c1, c2 \in CallIds :
       ( /\ c1 < c2
         /\ config.useCache
         /\ calls[c1].pc = "resolved"
         /\ calls[c2].pc = "resolved"
         /\ calls[c1].coordinates = calls[c2].coordinates
         /\ calls[c1].provider = calls[c2].provider )
          => /\ calls[c2].hit
             /\ calls[c2].result = calls[c1].result

\* C5: with caching enabled, under each of the four providers, a call on a
\* polygon of 3 vertices or more whose remote provider did not fail does not
\* end rejected, and what it resolves with has exactly the five required
\* keys.
C5_EveryProviderResolves ==
    \A c \in CallIds :
       ( /\ config.useCache
         /\ Settled(calls[c])
         /\ Len(calls[c].coordinates) >= 3
         /\ ~calls[c].fault )
          => /\ calls[c].pc = "resolved"
             /\ DOMAIN calls[c].result = RequiredKeys

C7_ProviderFailureWrapped ==
    [][ \A c \in CallIds :
          (InFlight(calls[c]) /\ calls'[c].fault)
             => /\ calls'[c].pc = "rejected"
                /\ \E cause \in Causes :
                      calls'[c].message = "Land cover analysis failed: " \o cause
                /\ ~calls'[c].wrote
                /\ cache' = cache ]_vars

\* C7 happens: a provider failed while the cache held an entry
C7_Witness ==
    \E c \in CallIds :
       /\ calls[c].fault
       /\ calls[c].pc = "rejected"
       /\ DOMAIN cache # {}

\* C8: in the application at most one call of analyzeLandCover is in flight,
\* it is in flight only while isAnalyzing is true, both controls are disabled
\* while isAnalyzing is true (the Analyze button also without a polygon, and
\* then only), and every call was made after all earlier calls had settled.
C8_OneAnalysisInFlight ==
    /\ Cardinality({c \in CallIds : InFlight(calls[c])}) <= 1
    /\ \A c \in CallIds : InFlight(calls[c]) => (isAnalyzing /\ uiCall = c)
    /\ isAnalyzing <=> uiCall # 0
    /\ isAnalyzing => (AnalyzeDisabled /\ SelectDisabled)
    /\ AnalyzeDisabled <=> (isAnalyzing \/ polygonCoordinates.null)
    /\ SelectDisabled <=> isAnalyzing
    /\ \A c \in CallIds : Started(calls[c]) => Sequential(c)

\* C8 happens: a second analysis is in flight, made after the first settled
C8_Witness ==
    /\ MaxCalls >= 2
    /\ Settled(calls[1])
    /\ InFlight(calls[2])
    /\ isAnalyzing

\* C9: the component starts idle with the button labelled 'Analyze
\* Property'; the step that makes an analysis request sets isAnalyzing and
\* clears the error; an analyzing component always becomes idle again; and
\* the step back to idle leaves an error message set exactly when the call
\* was rejected.
C9_IdleAnalyzingIdle ==
    /\ (~isAnalyzing /\ ButtonLabel = "Analyze Property" /\ error = "")
    /\ [][ (uiCall = 0 /\ uiCall' # 0) => (isAnalyzing' /\ error' = "") ]_vars
    /\ (isAnalyzing ~> (~isAnalyzing /\ ButtonLabel = "Analyze Property"))
    /\ [][ (isAnalyzing /\ ~isAnalyzing')
             => (error' # "" <=> calls[uiCall].pc = "rejected") ]_vars

\* C9 happens: after a failed analysis left its message, the next analysis
\* is under way and the message is cleared
C9_Witness ==
    /\ MaxCalls >= 2
    /\ calls[1].pc = "rejected"
    /\ isAnalyzing
    /\ uiCall = 2
    /\ error = ""

\* C10: every setProvider step, whatever variant and credential it is given,
\* leaves the cache with no entries.
C10_SetProviderEmptiesCache ==
    [][ (\E provider \in GeospatialProvider, apiKey \in ApiKeys :
            SetProvider(provider, apiKey))
          => DOMAIN cache' = {} ]_vars

\* C10 happens: a setProvider naming the variant already set was the first
\* thing to empty the cache after a call had stored its entry
C10_Witness ==
    \E c \in CallIds :
       /\ calls[c].wrote
       /\ calls[c].disturbed = "sameProvider"
       /\ DOMAIN cache = {}

\* C11: with the cache toggle disabled the cache is never read and never
\* written: it has no entries in any state, no call is served from it or
\* stores into it, and every call made has invoked the provider.
C11_CacheToggleOff ==
    ~config.useCache =>
       /\ DOMAIN cache = {}
       /\ \A c \in CallIds :
             Started(calls[c]) => /\ calls[c].invoked
                                  /\ ~calls[c].read
                                  /\ ~calls[c].wrote
                                  /\ ~calls[c].hit

\* C11 happens: with the toggle disabled, a polygon analyzed and resolved
\* once was analyzed again under the same provider, and resolved again
C11_Witness ==
    /\ ~config.useCache
    /\ \E c1, c2 \in CallIds :
          /\ c1 \in calls[c2].after
          /\ calls[c1].pc = "resolved"
          /\ calls[c2].pc = "resolved"
          /\ calls[c1].coordinates = calls[c2].coordinates
          /\ calls[c1].provider = calls[c2].provider
          /\ calls[c1].disturbed = ""
          /\ calls[c2].invoked

\* No call made so far overlapped an earlier one
NonOverlapping == \A c \in CallIds : Started(calls[c]) => Sequential(c)

\* C12: a step that removes an entry from the cache is a setProvider or a
\* clearCache step and leaves no entry at all; and in a run of
\* non-overlapping calls every other step keeps every entry, with its value.
C12_EntriesOnlyClearedTogether ==
    [][ /\ (\E k \in DOMAIN cache : k \notin DOMAIN cache')
            => /\ DOMAIN cache' = {}
               /\ \/ ClearCache
                  \/ \E provider \in GeospatialProvider, apiKey \in ApiKeys :
                        SetProvider(provider, apiKey)
        /\ (NonOverlapping' /\ DOMAIN cache' # {})
            => \A k \in DOMAIN cache :
                  k \in DOMAIN cache' /\ cache'[k] = cache[k] ]_vars

\* C12 happens: the entry of an earlier call is still there, with its value,
\* after a later call on another polygon stored a second entry
C12_Witness ==
    \E c1, c2 \in CallIds :
       /\ c1 \in calls[c2].after
       /\ calls[c1].wrote /\ calls[c2].wrote
       /\ calls[c1].coordinates # calls[c2].coordinates
       /\ Cardinality(DOMAIN cache) >= 2
       /\ LET key == CacheKeyOf(calls[c1].coordinates, calls[c1].provider).key
          IN  key \in DOMAIN cache /\ cache[key] = calls[c1].result

\* The pairs of numbers of a transformed geometry, in order: the items of a
\* raw list, the points of the rings of a GeoJSON-style polygon, the
\* lat, lng of the objects of an object list
PairsOf(polygon) ==
    IF ~polygon.isArray THEN Flat(polygon.coordinates)
    ELSE IF polygon.elems = "object"
    THEN [i \in 1..Len(polygon.items) |->
             <<polygon.items[i].lat, polygon.items[i].lng>>]
    ELSE polygon.items

\* The canonical flattening: a pair as "a,b", the pairs joined by ';'
RECURSIVE CanonicalKey(_)
CanonicalKey(pairs) ==
    IF Len(pairs) = 0 THEN ""
    ELSE ToString(pairs[1][1]) \o "," \o ToString(pairs[1][2])
           \o (IF Len(pairs) = 1 THEN "" ELSE ";" \o CanonicalKey(Tail(pairs)))

\* C13: for every provider variant getCacheKey returns (does not throw), what
\* it returns is the canonical flattening of the transformed geometry, and
\* every polygon whose transformed geometry has the same pairs of numbers
\* gets the same key.
C13_CanonicalCacheKey ==
    probe.key # Null =>
       /\ probe.key.ok
       /\ probe.key.key = CanonicalKey(PairsOf(probe.polygon))
       /\ \A coordinates \in PurePolygons, provider \in GeospatialProvider :
             LET polygon == transformPolygon(coordinates, provider)
             IN  PairsOf(polygon) = PairsOf(probe.polygon)
                    => getCacheKey(polygon) = probe.key

\* C14: for sentinelHub and googleEarthEngine transformPolygon returns
\* {type: 'Polygon', coordinates: [ring]} with one ring of the length and
\* order of the input and ring[i] = [lng, lat] of input[i].
C14_GeoJsonAxisSwap ==
    (probe.polygon # Null /\ probe.provider \in {SENTINEL_HUB, GOOGLE_EARTH_ENGINE})
       => /\ ~probe.polygon.isArray
          /\ probe.polygon.type = "Polygon"
          /\ Len(probe.polygon.coordinates) = 1
          /\ LET ring == probe.polygon.coordinates[1]
             IN  /\ Len(ring) = Len(probe.coordinates)
                 /\ \A i \in 1..Len(ring) :
                       ring[i] = <<probe.coordinates[i][2], probe.coordinates[i][1]>>

\* C14 happens: [37.775, -122.419] comes first in a 3-vertex input and
\* [-122.419, 37.775] first in the ring made for sentinelHub
C14_Witness ==
    /\ probe.polygon # Null
    /\ probe.provider = SENTINEL_HUB
    /\ Len(probe.coordinates) = 3
    /\ probe.coordinates[1] = <<37775, -122419>>
    /\ probe.polygon.coordinates[1][1] = <<-122419, 37775>>

\* C15: for mock transformPolygon returns the vertex list as it is; for
\* usgsLandcover it returns a list of {lat, lng} objects of the length and
\* order of the input with lat = input[i][0] and lng = input[i][1].
C15_IdentityAndObjectList ==
    /\ (probe.polygon # Null /\ probe.provider = MOCK)
          => /\ probe.polygon.isArray
             /\ probe.polygon.elems = "array"
             /\ probe.polygon.items = probe.coordinates
    /\ (probe.polygon # Null /\ probe.provider = USGS_LANDCOVER)
          => /\ probe.polygon.isArray
             /\ Len(probe.polygon.items) = Len(probe.coordinates)
             /\ \A i \in 1..Len(probe.coordinates) :
                   probe.polygon.items[i] = [lat |-> probe.coordinates[i][1],
                                             lng |-> probe.coordinates[i][2]]

\* C15 happens: a 3-vertex input starting with [37.775, -122.419] was
\* transformed for usgsLandcover
C15_Witness ==
    /\ probe.polygon # Null
    /\ probe.provider = USGS_LANDCOVER
    /\ Len(probe.coordinates) = 3
    /\ probe.coordinates[1] = <<37775, -122419>>
    /\ probe.polygon.items[1].lat = 37775

\* C16: each of the four drawn values of a mock breakdown is between 0 and
\* its bound, inclusive: 40, 30, 15, 20 when the computed area is more than
\* 0.001 and 20, 15, 5, 60 otherwise; trees is at most 40, and the triangle
\* of area exactly 0.001 gets the bounds of a small area.
C16_DrawBounds ==
    probe.result # Null =>
       LET r == probe.result
           area == calculatePolygonArea(
                      transformPolygon(probe.coordinates, probe.provider))
           large == /\ ~area.nan
                    /\ area.twice * 1000 > 2 * UnitsPerDegree * UnitsPerDegree
       IN  /\ r.trees \in 0..(IF large THEN 40 ELSE 20)
           /\ r.grass \in 0..(IF large THEN 30 ELSE 15)
           /\ r.water \in 0..(IF large THEN 15 ELSE 5)
           /\ r.buildings \in 0..(IF large THEN 20 ELSE 60)
           /\ r.trees <= 40
           /\ probe.coordinates = SmallTriangle /\ probe.provider = MOCK
                 => /\ area.twice * 1000 = 2 * UnitsPerDegree * UnitsPerDegree
                    /\ r.trees <= 20 /\ r.grass <= 15 /\ r.water <= 5

\* C16 happens: both ends of a range are drawn for the triangle of area
\* exactly 0.001 (trees 0, buildings 60), and 40 trees for a larger one
C16_Witness ==
    /\ probe.result # Null
    /\ \/ /\ probe.coordinates = SmallTriangle
          /\ probe.provider = MOCK
          /\ probe.result.trees = 0
          /\ probe.result.buildings = 60
       \/ /\ probe.coordinates = LargeTriangle
          /\ probe.result.trees = 40

\* C17: the array a caller handed to analyzeLandCover keeps its vertices,
\* in number, order and value, through every later step (calls[c].coordinates
\* is that array, which the mock geometry shares); and the step that makes a
\* call (transform, cache lookup, dispatch) records the array as it was
\* handed over and changes neither the config nor the cache.
C17_CallerPolygonUntouched ==
    [][ \A c \in CallIds :
          /\ Started(calls[c]) => calls'[c].coordinates = calls[c].coordinates
          /\ (~Started(calls[c]) /\ Started(calls'[c]))
                => /\ config' = config
                   /\ cache' = cache
                   /\ \A coordinates \in Polygons :
                         AnalyzeLandCover(c, coordinates)
                            => calls'[c].coordinates = coordinates ]_vars

\* C17 happens: a triangle went through the axis-swapping transform of
\* sentinelHub on a miss and again on a hit, and both calls still hold it
C17_Witness ==
    \E c1, c2 \in CallIds :
       /\ calls[c1].provider = SENTINEL_HUB
       /\ calls[c1].wrote
       /\ calls[c2].hit
       /\ calls[c1].coordinates = SmallTriangle
       /\ calls[c2].coordinates = SmallTriangle

\* C18: onPolygonCreated is called only by a completion handler (dblclick
\* or the Complete button) that finds at least 3 points placed, and it gets
\* exactly those points, in drawing order, as [lat, lng] pairs; the polygon
\* App holds changes in no other step, and a completion handler that finds
\* fewer than 3 points calls nothing.
C18_DrawingToolDelivery ==
    /\ [](drawing.created # Null =>
             /\ Len(drawing.points) >= 3
             /\ Len(drawing.created) = Len(drawing.points)
             /\ \A i \in 1..Len(drawing.points) :
                   drawing.created[i] = <<drawing.points[i].lat, drawing.points[i].lng>>
             /\ polygonCoordinates = [null |-> FALSE, value |-> drawing.created])
    /\ [][ /\ drawing'.created # Null
                 => /\ drawing'.points = drawing.points
                    /\ MapDblClick \/ CompleteButtonClick
           /\ polygonCoordinates' # polygonCoordinates
                 => drawing'.created # Null
           /\ ((MapDblClick \/ CompleteButtonClick) /\ Len(drawing.points) < 3)
                 => /\ drawing'.created = Null
                    /\ polygonCoordinates' = polygonCoordinates ]_vars

\* C18 happens: a completion handler delivered a polygon of 3 points after
\* an earlier delivery of another polygon
C18_Witness ==
    /\ drawing.created # Null
    /\ Len(drawing.points) = 3
    /\ polygonCoordinates.value = drawing.created

\* The state App and Analysis render first: no polygon, no results
InitialRender ==
    /\ polygonCoordinates.null
    /\ analysisResults = Null
    /\ ~isAnalyzing
    /\ error = ""

\* C19: on the initial render under NODE_ENV = 'test', getByText finds an
\* element whose text matches 'This is a prototype application using
\* open-source tools'.
C19_FooterPrototypeText ==
    InitialRender =>
       getByText(<<"This", "is", "a", "prototype", "application", "using",
                   "open-source", "tools">>, "test") # {}

\* The cache key of a call
KeyOf(c) == CacheKeyOf(calls[c].coordinates, calls[c].provider).key

\* Call c2 was made while c1 was in flight, on the same polygon, and every
\* other earlier call on that polygon had settled before c1 was made
Races(c1, c2) ==
    /\ c1 < c2
    /\ Started(calls[c2])
    /\ c1 \notin calls[c2].after
    /\ calls[c1].coordinates = calls[c2].coordinates
    /\ \A d \in 1..(c2 - 1) :
          (d # c1 /\ calls[d].coordinates = calls[c1].coordinates)
             => d \in calls[c1].after

\* The calls on the polygon of c that had stored a breakdown when c was made
StoredBefore(c) ==
    {d \in calls[c].after :
        calls[d].wrote /\ calls[d].coordinates = calls[c].coordinates}

\* C20: when a call is made on the polygon of a call still in flight, both
\* miss the cache and both invoke the provider; every call that resolves
\* after a miss stores its own breakdown under its key, replacing what is
\* there (last write wins); and a later call that hits is served the
\* breakdown of the call that stored last.
C20_RaceLastWriteWins ==
    /\ [](\A c1, c2 \in CallIds :
             Races(c1, c2) => /\ ~calls[c1].hit /\ ~calls[c2].hit
                              /\ calls[c1].invoked /\ calls[c2].invoked)
    /\ [][ \A c \in CallIds :
             (InFlight(calls[c]) /\ calls'[c].pc = "resolved")
                => /\ KeyOf(c) \in DOMAIN cache'
                   /\ cache'[KeyOf(c)] = calls'[c].result
                   /\ \A k \in DOMAIN cache \ {KeyOf(c)} :
                         k \in DOMAIN cache' /\ cache'[k] = cache[k] ]_vars
    /\ [](\A c \in CallIds :
             calls[c].hit
                => /\ StoredBefore(c) # {}
                   /\ \A d \in StoredBefore(c) :
                         (\A e \in StoredBefore(c) : e <= d)
                            => calls[c].result = calls[d].result)

\* C20 happens: two racing calls got different breakdowns and a later call
\* on the polygon was served that of the second, which resolved last
C20_Witness ==
    \E c1, c2, c3 \in CallIds :
       /\ Races(c1, c2)
       /\ calls[c1].pc = "resolved" /\ calls[c2].pc = "resolved"
       /\ calls[c1].result # calls[c2].result
       /\ calls[c3].hit
       /\ c2 \in calls[c3].after
       /\ calls[c3].coordinates = calls[c1].coordinates
       /\ calls[c3].result = calls[c2].result
       /\ cache[KeyOf(c3)] = calls[c2].result

\* The array in the opposite direction of traversal
Reversed(coordinates) ==
    [i \in 1..Len(coordinates) |-> coordinates[Len(coordinates) + 1 - i]]

\* x_i * y_(i+1) - x_(i+1) * y_i summed over the vertices i..n of pairs, the
\* successor of the last vertex being the first
RECURSIVE CrossSum(_, _)
CrossSum(pairs, i) ==
    IF i > Len(pairs) THEN 0
    ELSE LET next == IF i = Len(pairs) THEN 1 ELSE i + 1
         IN  (pairs[i][1] * pairs[next][2] - pairs[next][1] * pairs[i][2])
               + CrossSum(pairs, i + 1)

\* C21: for a polygon of three or more vertices calculatePolygonArea returns
\* the area of the polygon's pairs under every provider variant, so the area
\* and the large-or-small decision are those of the caller's own list.
C21_SameAreaEveryVariant ==
    (probe.area # Null /\ Len(probe.coordinates) >= 3)
       => LET raw == calculatePolygonArea(ArrayOfPairs(probe.coordinates))
          IN  /\ ~probe.area.nan
              /\ probe.area = raw
              /\ isLargeArea(probe.area) = isLargeArea(raw)

\* C22: for a list of n >= 3 pairs calculatePolygonArea returns half the
\* absolute value of the sum of x_i * y_(i+1) - x_(i+1) * y_i, which is never
\* negative, is the same for the list in the opposite direction, and is 1 for
\* the unit square.
C22_ShoelaceFormula ==
    (probe.area # Null /\ probe.provider = MOCK /\ Len(probe.coordinates) >= 3)
       => /\ ~probe.area.nan
          /\ probe.area.twice = Abs(CrossSum(probe.coordinates, 1))
          /\ probe.area.twice >= 0
          /\ calculatePolygonArea(ArrayOfPairs(Reversed(probe.coordinates)))
                = probe.area
          /\ probe.coordinates = UnitSquare
                => probe.area.twice = 2 * UnitsPerDegree * UnitsPerDegree

\* C22 happens: the area of a triangle traversed in the direction that makes
\* the sum negative has been computed and is positive
C22_Witness ==
    /\ probe.area # Null
    /\ probe.provider = MOCK
    /\ Len(probe.coordinates) = 3
    /\ CrossSum(probe.coordinates, 1) < 0
    /\ probe.area.twice > 0

\* The sum of all five values of a breakdown
FiveSum(r) == FourSum(r) + r.other

C24_SwitchDuringFlight ==
    [][ \A c \in CallIds :
           /\ (InFlight(calls[c]) /\ config'.provider # config.provider)
                 => /\ cache' = EmptyMap
                    /\ calls'[c] = calls[c]
           /\ (InFlight(calls[c]) /\ calls'[c].pc = "resolved")
                 => /\ calls'[c].provider = calls[c].provider
                    /\ calls'[c].coordinates = calls[c].coordinates
                    /\ config.useCache
                          => /\ calls'[c].wrote
                             /\ KeyOf(c) \in DOMAIN cache'
                             /\ cache'[KeyOf(c)] = calls'[c].result
           /\ \A d \in CallIds \ {c} :
                 ( /\ calls[c].pc = "idle"
                   /\ Started(calls'[c])
                   /\ config.useCache
                   /\ calls[d].wrote
                   /\ calls[d].provider # config.provider
                   /\ calls'[c].coordinates = calls[d].coordinates
                   /\ KeyOf(d) \in DOMAIN cache
                   /\ CacheKeyOf(calls[d].coordinates, config.provider)
                         = [ok |-> TRUE, message |-> "", key |-> KeyOf(d)] )
                    => /\ calls'[c].pc = "resolved"
                       /\ calls'[c].hit
                       /\ ~calls'[c].invoked
                       /\ calls'[c].result = cache[KeyOf(d)]
      ]_vars

\* C24 happens: call 1 started under sentinelHub and stored its result; no
\* setProvider or clearCache ran between its end and the start of call 2,
\* which was made on the same polygon under googleEarthEngine and was served
\* the result of call 1 without a provider call
C24_Witness ==
    /\ calls[1].provider = SENTINEL_HUB
    /\ Len(calls[1].coordinates) >= 3
    /\ calls[1].wrote
    /\ calls[2].provider = GOOGLE_EARTH_ENGINE
    /\ 1 \in calls[2].after
    /\ 1 \notin calls[2].cleared
    /\ calls[2].coordinates = calls[1].coordinates
    /\ calls[2].pc = "resolved"
    /\ calls[2].hit
    /\ ~calls[2].invoked
    /\ calls[2].result = calls[1].result

\* C25: a rejected call whose provider was invoked carries the wrapped
\* message and a rejected call whose provider was not invoked carries the
\* TypeError of the key derivation as it was thrown; a call made with caching
\* on whose key derivation throws is rejected in the same step, with that
\* message, without a provider call and with the cache unchanged; and with
\* usgsLandcover and caching on that is every call on a non-empty polygon.
C25_LookupErrorUnwrapped ==
    /\ [](\A c \in CallIds :
             calls[c].pc = "rejected"
                => /\ calls[c].invoked
                         => \E cause \in Causes \cup {JoinTypeError} :
                               calls[c].message = WrappedMessage(cause)
                   /\ ~calls[c].invoked
                         => /\ calls[c].message = JoinTypeError
                            /\ calls[c].provider = USGS_LANDCOVER)
    /\ [][ \A c \in CallIds :
             (calls[c].pc = "idle" /\ Started(calls'[c]) /\ config.useCache)
                => LET failed ==
                          ~CacheKeyOf(calls'[c].coordinates, config.provider).ok
                   IN  /\ failed
                             <=> /\ config.provider = USGS_LANDCOVER
                                 /\ Len(calls'[c].coordinates) > 0
                       /\ failed
                             => /\ calls'[c].pc = "rejected"
                                /\ calls'[c].message = JoinTypeError
                                /\ ~calls'[c].invoked
                                /\ ~calls'[c].wrote
                                /\ cache' = cache
          ]_vars

\* C25 happens: a call on a triangle under usgsLandcover with caching on was
\* rejected with the bare TypeError and its provider was not invoked
C25_Witness ==
    /\ config.useCache
    /\ calls[1].pc = "rejected"
    /\ calls[1].provider = USGS_LANDCOVER
    /\ Len(calls[1].coordinates) >= 3
    /\ ~calls[1].invoked
    /\ calls[1].message = JoinTypeError
    /\ calls[1].message # WrappedMessage(JoinTypeError)

\* The last non-empty credential among the recorded arguments, or `initial`
\* when there is none
RECURSIVE LastCredential(_, _)
LastCredential(initial, switches) ==
    IF switches = <<>> THEN initial
    ELSE LET last == switches[Len(switches)]
         IN  IF last[2] # "" THEN last[2]
             ELSE LastCredential(initial, SubSeq(switches, 1, Len(switches) - 1))

\* C29: whatever calls of analyzeLandCover, setProvider and clearCache were
\* made, the cache toggle is the one of construction, the provider is the one
\* of the last setProvider (of construction when there was none), and the
\* stored credential is the last non-empty credential passed to setProvider
\* (the one of construction when there was none).
C29_ConfigOnlyBySetProvider ==
    /\ config.useCache = probe.initial.useCache
    /\ config.provider = IF probe.switches = <<>> THEN probe.initial.provider
                         ELSE probe.switches[Len(probe.switches)][1]
    /\ config.apiKey = LastCredential(probe.initial.apiKey, probe.switches)

\* C29 happens: a credential was supplied with sentinelHub, the provider was
\* then switched to googleEarthEngine without a credential, a call was made
\* and settled, and the credential is still stored
C29_Witness ==
    /\ probe.initial.apiKey = ""
    /\ probe.switches = <<<<SENTINEL_HUB, "key">>, <<GOOGLE_EARTH_ENGINE, "">>>>
    /\ calls[1].provider = GOOGLE_EARTH_ENGINE
    /\ Settled(calls[1])
    /\ config.provider = GOOGLE_EARTH_ENGINE
    /\ config.apiKey = "key"

\* C26: a step that replaces App's polygon while an analysis is in flight
\* sets the results to null and leaves the analysis and its call as they
\* are; the step in which the analysis ends with a resolved call sets the
\* results to that call's breakdown, whatever polygon App holds by then.
C26_StaleResultsDelivered ==
    [][ /\ (uiCall # 0 /\ polygonCoordinates' # polygonCoordinates)
              => /\ analysisResults' = Null
                 /\ uiCall' = uiCall
                 /\ isAnalyzing' = isAnalyzing
                 /\ calls' = calls
        /\ (uiCall # 0 /\ uiCall' = 0 /\ calls[uiCall].pc = "resolved")
              => /\ analysisResults' = calls[uiCall].result
                 /\ polygonCoordinates' = polygonCoordinates
      ]_vars

\* C26 happens: results are displayed, they are the breakdown of a call on
\* another polygon than the one App holds, and no call was made on the
\* polygon App holds
C26_Witness ==
    /\ analysisResults # Null
    /\ uiCall = 0
    /\ ~polygonCoordinates.null
    /\ \E c \in CallIds :
          /\ calls[c].pc = "resolved"
          /\ calls[c].result = analysisResults
          /\ calls[c].coordinates # polygonCoordinates.value
    /\ \A c \in CallIds :
          Started(calls[c]) => calls[c].coordinates # polygonCoordinates.value

\* C27: a step that empties the points of the map leaves App's polygon, the
\* results, the Analysis component's state, the enabling of the Analyze
\* button and the service as they are; and a click on Analyze starts a call
\* on the polygon App holds, whatever points the map holds.
C27_ClearPointsLocal ==
    [][ /\ (drawing.points # <<>> /\ drawing'.points = <<>>)
              => /\ ~drawing'.isDrawing
                 /\ polygonCoordinates' = polygonCoordinates
                 /\ analysisResults' = analysisResults
                 /\ AnalyzeDisabled' = AnalyzeDisabled
                 /\ UNCHANGED <<isAnalyzing, error, selectedProvider, uiCall,
                                serviceVars>>
        /\ (uiCall = 0 /\ uiCall' # 0)
              => /\ ~polygonCoordinates.null
                 /\ calls'[uiCall'].coordinates = polygonCoordinates.value
      ]_vars

\* C27 happens: the points of a completed polygon were cleared, App still
\* holds the polygon, the Analyze button is enabled, and the results shown
\* are those of a call on that polygon
C27_Witness ==
    /\ drawing.points = <<>>
    /\ ~drawing.isDrawing
    /\ ~polygonCoordinates.null
    /\ Len(polygonCoordinates.value) >= 3
    /\ ~AnalyzeDisabled
    /\ analysisResults # Null
    /\ \E c \in CallIds :
          /\ calls[c].pc = "resolved"
          /\ calls[c].coordinates = polygonCoordinates.value
          /\ calls[c].result = analysisResults

=============================================================================
